---- MODULE Spec2Model ----
(***************************************************************************)
(* Model of the real-world testing control loop of the RL filling system:  *)
(* RealWorldTester (src/src/real_world_tester.py), the UDP telemetry       *)
(* client (src/src/tcp_client.py) and the defaults of src/src/config.py.   *)
(*                                                                         *)
(* One session of run_agent_testing is a state machine over pc.  The       *)
(* collaborators whose code is not part of the modelled files (Modbus      *)
(* client, data processor, reward calculator, database handler, agent)     *)
(* appear through the values they return to the control loop.              *)
(***************************************************************************)
EXTENDS Integers, Sequences, FiniteSets, TLC

VARIABLES
    pc,               \* position of the control loop inside run_agent_testing
    session_stats,    \* self.session_stats
    stats_before,     \* session_stats as the current loop iteration found it
    agent,            \* the agent object handed to run_agent_testing
    episodes,         \* local list `episodes`
    episodes_bound,   \* whether the local name `episodes` has been assigned
    episode_num,      \* local `episode_num`
    raw_data,         \* run_episode's local `raw_data` (<<>> is None)
    episode_data,     \* parsed_data / episode_data (<<>> is None, <<d>> is d)
    current_switch_point,  \* local `current_switch_point` (<<>> is unbound)
    selection,        \* what lines 250-290 computed for the episode (<<>> before)
    output_paths,     \* whether the local name `output_paths` has been assigned
    udp_socket,       \* UDPClient.client_socket: "none" | "open" | "closed"
    udp_buffer,       \* datagrams waiting on the UDP socket (<<>> is nothing)
    modbus_open,      \* connection state of the Modbus client
    sent,             \* last call of send_switching_point: value, result
    db_calls,         \* persistence calls of the run_episode call in progress
    db_error,         \* whether one of them raised (logged, not re-raised)
    q_file,           \* content last written by write_to_text (<<>> is never)
    last_log,         \* most recent log record of level info or above
    steps,            \* phases the current loop iteration has completed
    outcome,          \* how the session ended: report, summary, return value
    call              \* a call of one of the program's functions on its own: inputs, result

vars == <<pc, session_stats, stats_before, agent, episodes, episodes_bound, episode_num,
          raw_data, episode_data, current_switch_point, selection,
          output_paths, udp_socket, udp_buffer, modbus_open, sent, db_calls, db_error,
          q_file, last_log, steps, outcome, call>>

-----------------------------------------------------------------------------
(* Bounds of the model *)

\* number of successful episodes after which the operator stops the session
MaxEpisodes == 2

-----------------------------------------------------------------------------
(* Program constants: src/src/config.py *)

DEFAULT_SAFE_WEIGHT_MIN == 74
DEFAULT_SAFE_WEIGHT_MAX == 76
DEFAULT_WEIGHT_QUANTIZATION_STEP == 10000
DEFAULT_STARTING_SWITCH_POINT == 45
DEFAULT_INITIAL_Q_VALUE == -125
DEFAULT_OVERFLOW_PENALTY_CONSTANT == -370
DEFAULT_UNDERFLOW_PENALTY_CONSTANT == -100

\* DEFAULT_LEARNING_RATE = 0.1, as the denominator of the fraction
LearningRateDen == 10

\* the sentinel the code searches for in weight_sequence (.index(-1))
TransitionMarker == -1

-----------------------------------------------------------------------------
(* Small helpers *)

Max(a, b) == IF a >= b THEN a ELSE b
Abs(a) == IF a >= 0 THEN a ELSE -a
Range(s) == {s[i] : i \in 1..Len(s)}

\* Python's None / an unbound value is the empty sequence, a value v is <<v>>
None == <<>>
Some(v) == <<v>>
IsNone(o) == o = <<>>
Get(o) == o[1]

-----------------------------------------------------------------------------
(* Telemetry transcripts.  A transcript is the list of decoded weight      *)
(* fields in arrival order plus a flag for a field that does not decode.   *)

Transcript(ws, bad) == [weights |-> ws, malformed |-> bad]

SafeTranscript      == Transcript(<<450000, TransitionMarker, 750000>>, FALSE)
OverflowTranscript  == Transcript(<<460000, TransitionMarker, 778273>>, FALSE)
\* underweight, and the marker is the first sample
UnderflowTranscript == Transcript(<<TransitionMarker, 730000>>, FALSE)
NoMarkerTranscript  == Transcript(<<450000, 750000>>, FALSE)
MalformedTranscript == Transcript(<<450000>>, TRUE)
EmptyTranscript     == Transcript(<<>>, FALSE)

Transcripts ==
    { SafeTranscript, OverflowTranscript, UnderflowTranscript,
      NoMarkerTranscript, MalformedTranscript, EmptyTranscript }

\* list.index(x): position of the first occurrence (1-based here)
IndexOf(seq, x) == CHOOSE i \in 1..Len(seq) :
                      seq[i] = x /\ \A j \in 1..(i - 1) : seq[j] # x

\* real_tolerance_limits of __init__: the safe band in device units
RealToleranceLimits ==
    <<DEFAULT_SAFE_WEIGHT_MIN * DEFAULT_WEIGHT_QUANTIZATION_STEP,
      DEFAULT_SAFE_WEIGHT_MAX * DEFAULT_WEIGHT_QUANTIZATION_STEP>>

\* RealDataProcessor.parse_raw_data: None for an empty or malformed
\* transcript or one without transition marker, else the parsed_data dict
ParseRawData(raw) ==
    IF \/ raw.weights = <<>>
       \/ raw.malformed
       \/ TransitionMarker \notin Range(raw.weights)
    THEN None
    ELSE LET ws == raw.weights
             m  == IndexOf(ws, TransitionMarker)
             fw == ws[Len(ws)]
         IN Some([ raw_data         |-> raw,
                   weight_sequence  |-> ws,
                   coarse_time      |-> m - 1,
                   fine_time        |-> Len(ws) - m,
                   total_time       |-> Len(ws) - 1,
                   final_weight     |-> fw,
                   overflow_amount  |-> Max(0, fw - RealToleranceLimits[2]),
                   underflow_amount |-> Max(0, RealToleranceLimits[1] - fw),
                   reward           |-> None,
                   filling_session  |-> None ])

\* RewardCalculator.calculate_reward(episode_length, final_weight, method)
CalculateReward(episode_length, final_weight, method) ==
    LET lo == RealToleranceLimits[1]
        hi == RealToleranceLimits[2]
        centre == (lo + hi) \div 2
        half == (hi - lo) \div 2
        accuracy == ((half - Abs(final_weight - centre)) * 100) \div half
    IN IF final_weight > hi
         THEN DEFAULT_OVERFLOW_PENALTY_CONSTANT * (final_weight - hi)
       ELSE IF final_weight < lo
         THEN DEFAULT_UNDERFLOW_PENALTY_CONSTANT * (lo - final_weight)
       ELSE IF method = "mab" THEN accuracy
       ELSE accuracy + Max(0, 10 - episode_length)

-----------------------------------------------------------------------------
(* Session statistics *)

InitialStats ==
    [ total_episodes |-> 0, successful_episodes |-> 0, failed_episodes |-> 0,
      safe_episodes |-> 0, overflow_episodes |-> 0, underflow_episodes |-> 0 ]

Bump(stats, key) == [stats EXCEPT ![key] = @ + 1]

\* UpdateSessionStats without the total_episodes line
UpdateSessionStats_TotalLeftOut(stats, d) ==
    LET s == Bump(stats, "successful_episodes")
    IN IF d.overflow_amount > 0 THEN Bump(s, "overflow_episodes")
       ELSE IF d.underflow_amount > 0 THEN Bump(s, "underflow_episodes")
       ELSE Bump(s, "safe_episodes")

\* _update_session_stats
UpdateSessionStats(stats, d) ==
    LET s == Bump(Bump(stats, "total_episodes"), "successful_episodes")
    IN IF d.overflow_amount > 0 THEN Bump(s, "overflow_episodes")
       ELSE IF d.underflow_amount > 0 THEN Bump(s, "underflow_episodes")
       ELSE Bump(s, "safe_episodes")

\* the failure return without the counter (as the disabled line 127)
MarkEpisodeFailed_Dropped(stats) == stats

\* the line `self.session_stats['failed_episodes'] += 1` of run_episode
MarkEpisodeFailed(stats) == Bump(stats, "failed_episodes")

StatKeys == DOMAIN InitialStats

\* number of counters in which two statistics records differ
CountersChanged(a, b) == Cardinality({k \in StatKeys : a[k] # b[k]})

-----------------------------------------------------------------------------
(* The agent.  Rates are in thousandths. *)

DEFAULT_EXPLORATION_RATE == 900
DEFAULT_EXPLORATION_MIN_RATE == 10
DEFAULT_EXPLORATION_DECAY_RATE == 995
DEFAULT_EXPLORATION_DECAY_INTERVAL == 5

\* what an agent object can expose to _update_agent_with_episode
Capabilities == {"_update_q_value", "train_episode", "_update_exploration_rate"}

NewAgent(type, caps) ==
    [ type |-> type, caps |-> caps,
      q_table |-> <<>>,               \* switching point -> estimate
      update_count |-> 0,             \* value-table updates made (all visits)
      exploration_rate |-> DEFAULT_EXPLORATION_RATE,
      episode_count |-> 0 ]           \* calls of _update_exploration_rate

\* the agents a session is started with: type(agent).__name__ and attributes
Agents ==
    { NewAgent("QLearningAgent", {"_update_q_value", "_update_exploration_rate"}),
      NewAgent("TDAgent", {"train_episode", "_update_exploration_rate"}),
      NewAgent("BanditAgent", {"_update_q_value", "_update_exploration_rate"}),
      NewAgent("BanditAgent", {}) }

\* agent._update_q_value(switching_point, reward)
UpdateQValue(q, point, reward) ==
    LET old == IF point \in DOMAIN q THEN q[point] ELSE DEFAULT_INITIAL_Q_VALUE
        new == old + (reward - old) \div LearningRateDen
    IN [p \in (DOMAIN q) \cup {point} |-> IF p = point THEN new ELSE q[p]]

\* agent.train_episode(switching_point): the learner's own episode update
TrainEpisode(q, point) == UpdateQValue(q, point, 0)

\* GetOptimalSwitchPoint with ties going to the largest switching point
GetOptimalSwitchPoint_LargestOnTie(q) ==
    IF DOMAIN q = {} THEN DEFAULT_STARTING_SWITCH_POINT
    ELSE CHOOSE p \in DOMAIN q :
            \A o \in DOMAIN q : q[o] < q[p] \/ (q[o] = q[p] /\ p >= o)

\* agent.get_optimal_switch_point()
GetOptimalSwitchPoint(q) ==
    IF DOMAIN q = {} THEN DEFAULT_STARTING_SWITCH_POINT
    ELSE CHOOSE p \in DOMAIN q :
            \A o \in DOMAIN q : q[o] < q[p] \/ (q[o] = q[p] /\ p <= o)

\* agent.select_action(baseline) for one outcome of its random draws:
\* the exploration trial and the signed step
SelectAction(baseline, explore, offset) ==
    IF explore THEN <<baseline + offset, TRUE>> ELSE <<baseline, FALSE>>

\* the signed steps select_action draws in the session model (the nearest
\* neighbours of the baseline)
SessionOffsets == {-1, 1}

\* UpdateExplorationRate without the floor at the minimum rate
UpdateExplorationRate_NoFloor(a) ==
    LET n == a.episode_count + 1
    IN [a EXCEPT !.episode_count = n,
                 !.exploration_rate =
                     IF n % DEFAULT_EXPLORATION_DECAY_INTERVAL = 0
                     THEN (@ * DEFAULT_EXPLORATION_DECAY_RATE) \div 1000
                     ELSE @]

\* agent._update_exploration_rate()
UpdateExplorationRate(a) ==
    LET n == a.episode_count + 1
    IN [a EXCEPT !.episode_count = n,
                 !.exploration_rate =
                     IF n % DEFAULT_EXPLORATION_DECAY_INTERVAL = 0
                     THEN Max(DEFAULT_EXPLORATION_MIN_RATE,
                              (@ * DEFAULT_EXPLORATION_DECAY_RATE) \div 1000)
                     ELSE @]

\* UpdatePath with the bandit update as the fallback branch
UpdatePath_FallbackIsBandit(a) ==
    IF a.type \in {"MonteCarloAgent", "TDAgent", "StandardQLearningAgent"}
    THEN "train" ELSE "mab"

\* the branch _update_agent_with_episode takes for an agent
UpdatePath(a) ==
    IF a.type = "QLearningAgent" THEN "mab"
    ELSE IF a.type \in {"MonteCarloAgent", "TDAgent", "StandardQLearningAgent"}
         THEN "train"
    ELSE "skip"

\* TerminationType with the band edges counted as outside the band
TerminationType_EdgesOutside(final_weight) ==
    IF final_weight <= DEFAULT_SAFE_WEIGHT_MIN * DEFAULT_WEIGHT_QUANTIZATION_STEP
        THEN "underweight"
    ELSE IF final_weight >= DEFAULT_SAFE_WEIGHT_MAX * DEFAULT_WEIGHT_QUANTIZATION_STEP
        THEN "overweight"
    ELSE "safe"

\* the termination type run_agent_testing writes to the record
TerminationType(final_weight) ==
    IF final_weight < DEFAULT_SAFE_WEIGHT_MIN * DEFAULT_WEIGHT_QUANTIZATION_STEP
        THEN "underweight"
    ELSE IF final_weight > DEFAULT_SAFE_WEIGHT_MAX * DEFAULT_WEIGHT_QUANTIZATION_STEP
        THEN "overweight"
    ELSE "safe"

-----------------------------------------------------------------------------
(* The session *)

\* bound on failed episodes after which the operator stops feeding the loop
MaxFailures == 2

NoOutcome ==
    [ cause |-> "none", report |-> None, summary |-> None, returned |-> None ]

Init ==
    /\ pc = "Connecting"
    /\ session_stats = InitialStats
    /\ stats_before = InitialStats
    /\ agent \in Agents
    /\ episodes = <<>>
    /\ episodes_bound = FALSE
    /\ episode_num = 0
    /\ raw_data = None
    /\ episode_data = None
    /\ current_switch_point = None
    /\ selection = None
    /\ output_paths = FALSE
    /\ udp_socket = "none"
    /\ udp_buffer = None
    /\ modbus_open = FALSE
    /\ sent = None
    /\ db_calls = <<>>
    /\ db_error = FALSE
    /\ q_file = None
    /\ last_log = "none"
    /\ steps = <<>>
    /\ outcome = NoOutcome
    /\ call = None

\* connect_devices, and the early return of run_agent_testing
ConnectDevices ==
    /\ pc = "Connecting"
    /\ \E udp_connected \in BOOLEAN, modbus_connected \in BOOLEAN :
         /\ udp_socket' = IF udp_connected THEN "open" ELSE "none"
         /\ modbus_open' = modbus_connected
         /\ IF udp_connected /\ modbus_connected
              THEN /\ pc' = "Entering"
                   /\ UNCHANGED <<outcome, last_log>>
              ELSE /\ pc' = "NotConnected"
                   /\ last_log' = "connect_failed"
                   /\ outcome' = [outcome EXCEPT !.returned = Some(<<>>)]
    /\ UNCHANGED <<session_stats, stats_before, agent, episodes, episodes_bound, episode_num,
                   raw_data, episode_data, current_switch_point, selection,
                   output_paths, udp_buffer, sent, db_calls, db_error, q_file, steps>>
    /\ UNCHANGED call

\* episodes = [] ; episode_num = 1
EnterLoop ==
    /\ pc = "Entering"
    /\ episodes' = <<>>
    /\ episodes_bound' = TRUE
    /\ episode_num' = 1
    /\ pc' = "Idle"
    /\ UNCHANGED <<session_stats, stats_before, agent, raw_data, episode_data,
                   current_switch_point, selection, output_paths, udp_socket,
                   udp_buffer, modbus_open, sent, db_calls, db_error, q_file, last_log,
                   steps, outcome>>
    /\ UNCHANGED call

\* StartEpisode with the switching point sent to the device before the fill
\* is awaited (the disabled lines at the head of run_episode)
StartEpisode_SendsFirst ==
    /\ pc = "Idle"
    /\ episode_num <= MaxEpisodes
    /\ session_stats.failed_episodes < MaxFailures
    /\ pc' = "AwaitingTelemetry"
    /\ raw_data' = None
    /\ episode_data' = None
    /\ selection' = None
    /\ db_calls' = <<>>
    /\ db_error' = FALSE
    /\ steps' = <<>>
    /\ last_log' = "starting_episode"
    /\ stats_before' = session_stats
    /\ sent' = Some([ value |-> DEFAULT_STARTING_SWITCH_POINT + episode_num,
                      accepted |-> TRUE ])
    /\ UNCHANGED <<session_stats, agent, episodes, episodes_bound, episode_num,
                   current_switch_point, output_paths, udp_socket, udp_buffer,
                   modbus_open, q_file, outcome>>
    /\ UNCHANGED call

\* top of `while True`: the call of run_episode
StartEpisode ==
    /\ pc = "Idle"
    /\ episode_num <= MaxEpisodes
    /\ session_stats.failed_episodes < MaxFailures
    /\ pc' = "AwaitingTelemetry"
    /\ raw_data' = None
    /\ episode_data' = None
    /\ selection' = None
    /\ db_calls' = <<>>
    /\ db_error' = FALSE
    /\ steps' = <<>>
    /\ last_log' = "starting_episode"
    /\ stats_before' = session_stats
    /\ UNCHANGED <<session_stats, agent, episodes, episodes_bound, episode_num,
                   current_switch_point, output_paths, udp_socket, udp_buffer,
                   modbus_open, sent, q_file, outcome>>
    /\ UNCHANGED call

\* the device finishes a fill and its transcript arrives on the socket
DeviceSends ==
    /\ pc = "AwaitingTelemetry"
    /\ udp_socket = "open"
    /\ udp_buffer = None
    /\ \E t \in Transcripts : udp_buffer' = Some(t)
    /\ UNCHANGED <<pc, session_stats, stats_before, agent, episodes, episodes_bound,
                   episode_num, raw_data, episode_data, current_switch_point,
                   selection, output_paths, udp_socket, modbus_open, sent,
                   db_calls, db_error, q_file, last_log, steps, outcome>>
    /\ UNCHANGED call

\* UDPClient.receive_data: the joined datagrams, None when none arrived
ReceivedText == IF udp_buffer = None THEN None ELSE udp_buffer

\* Python truth value of the received text (None and "" are falsy)
Truthy(text) == text # None /\ Get(text).weights # <<>>

\* one turn of run_episode's receive loop
ReceiveTelemetry ==
    /\ pc = "AwaitingTelemetry"
    /\ udp_buffer' = None
    /\ IF Truthy(ReceivedText)
         THEN /\ raw_data' = ReceivedText
              /\ pc' = "Parsing"
              /\ steps' = Append(steps, "receive")
              /\ last_log' = "received_raw_data"
         ELSE /\ last_log' = "no_data"
              /\ UNCHANGED <<raw_data, pc, steps>>
    /\ UNCHANGED <<session_stats, stats_before, agent, episodes, episodes_bound, episode_num,
                   episode_data, current_switch_point, selection, output_paths,
                   udp_socket, modbus_open, sent, db_calls, db_error, q_file, outcome>>
    /\ UNCHANGED call

\* recvfrom raises an error other than socket.timeout: it reaches the
\* `except Exception` of run_agent_testing
ReceiveSocketError ==
    /\ pc = "AwaitingTelemetry"
    /\ pc' = "Terminating"
    /\ last_log' = "testing_error"
    /\ outcome' = [outcome EXCEPT !.cause = "error"]
    /\ UNCHANGED <<session_stats, stats_before, agent, episodes, episodes_bound, episode_num,
                   raw_data, episode_data, current_switch_point, selection,
                   output_paths, udp_socket, udp_buffer, modbus_open, sent,
                   db_calls, db_error, q_file, steps>>
    /\ UNCHANGED call

\* Parse without the `if not parsed_data` return: the None goes on to
\* create_filling_session, whose exception ends the session
Parse_ResultUnchecked ==
    /\ pc = "Parsing"
    /\ LET parsed == ParseRawData(Get(raw_data))
       IN IF parsed = None
            THEN /\ last_log' = "testing_error"
                 /\ episode_data' = None
                 /\ pc' = "Terminating"
                 /\ outcome' = [outcome EXCEPT !.cause = "error"]
                 /\ UNCHANGED <<steps, session_stats>>
            ELSE /\ episode_data' = parsed
                 /\ pc' = "Segmenting"
                 /\ steps' = Append(steps, "parse")
                 /\ UNCHANGED <<session_stats, last_log, outcome>>
    /\ UNCHANGED <<stats_before, agent, episodes, episodes_bound, episode_num, raw_data,
                   current_switch_point, selection, output_paths, udp_socket,
                   udp_buffer, modbus_open, sent, db_calls, db_error, q_file>>
    /\ UNCHANGED call

\* parse_raw_data and the failure return
Parse ==
    /\ pc = "Parsing"
    /\ LET parsed == ParseRawData(Get(raw_data))
       IN IF parsed = None
            THEN /\ session_stats' = MarkEpisodeFailed(session_stats)
                 /\ last_log' = "parse_failed"
                 /\ episode_data' = None
                 /\ pc' = "Returned"
                 /\ UNCHANGED steps
            ELSE /\ episode_data' = parsed
                 /\ pc' = "Segmenting"
                 /\ steps' = Append(steps, "parse")
                 /\ UNCHANGED <<session_stats, last_log>>
    /\ UNCHANGED <<stats_before, agent, episodes, episodes_bound, episode_num, raw_data,
                   current_switch_point, selection, output_paths, udp_socket,
                   udp_buffer, modbus_open, sent, db_calls, db_error, q_file, outcome>>
    /\ UNCHANGED call

\* create_filling_session and the failure return; whether the processor
\* can build a session is its own decision
Segment ==
    /\ pc = "Segmenting"
    /\ \E built \in BOOLEAN :
         IF built
           THEN /\ episode_data' =
                     Some([Get(episode_data) EXCEPT !.filling_session =
                         Some([ episode_length |-> Get(episode_data).total_time,
                                final_weight |-> Get(episode_data).final_weight ])])
                /\ pc' = "Scoring"
                /\ steps' = Append(steps, "segment")
                /\ UNCHANGED <<session_stats, last_log>>
           ELSE /\ session_stats' = MarkEpisodeFailed(session_stats)
                /\ last_log' = "session_failed"
                /\ episode_data' = None
                /\ pc' = "Returned"
                /\ UNCHANGED steps
    /\ UNCHANGED <<stats_before, agent, episodes, episodes_bound, episode_num, raw_data,
                   current_switch_point, selection, output_paths, udp_socket,
                   udp_buffer, modbus_open, sent, db_calls, db_error, q_file, outcome>>
    /\ UNCHANGED call

\* calculate_reward(..., method="standard") and parsed_data['reward'] = reward
Score ==
    /\ pc = "Scoring"
    /\ LET d == Get(episode_data)
           fs == Get(d.filling_session)
       IN episode_data' = Some([d EXCEPT !.reward =
              Some(CalculateReward(fs.episode_length, fs.final_weight, "standard"))])
    /\ pc' = "UpdatingStats"
    /\ steps' = Append(steps, "score")
    /\ UNCHANGED <<session_stats, stats_before, agent, episodes, episodes_bound, episode_num,
                   raw_data, current_switch_point, selection, output_paths,
                   udp_socket, udp_buffer, modbus_open, sent, db_calls, db_error, q_file,
                   last_log, outcome>>
    /\ UNCHANGED call

\* self._update_session_stats(parsed_data)
UpdateStats ==
    /\ pc = "UpdatingStats"
    /\ session_stats' = UpdateSessionStats(session_stats, Get(episode_data))
    /\ pc' = "Saving"
    /\ UNCHANGED <<stats_before, agent, episodes, episodes_bound, episode_num, raw_data,
                   episode_data, current_switch_point, selection, output_paths,
                   udp_socket, udp_buffer, modbus_open, sent, db_calls, db_error, q_file,
                   last_log, steps, outcome>>
    /\ UNCHANGED call

\* what the three persistence calls can answer
DbOutcomes ==
    { "raw_none", "raw_raises", "parsed_none", "parsed_raises",
      "stats_raises", "saved" }

\* one call of the database handler: what it was given as the id of the
\* original episode and what it answered ("id:..." is an id, "none" is
\* None, "raises" is an exception)
DbCall(fn, original_id, answer) ==
    [fn |-> fn, original_id |-> original_id, answer |-> answer]

\* DbCallsFor with the `if original_id:` and `if parsed_id:` gates left out
DbCallsFor_Ungated(o) ==
    LET raw == DbCall("save_original_episode", None,
                      IF o = "raw_none" THEN "none"
                      ELSE IF o = "raw_raises" THEN "raises" ELSE "id:original")
        parsed == DbCall("save_parsed_episode",
                         IF raw.answer = "id:original" THEN Some(raw.answer) ELSE None,
                         IF o = "parsed_none" THEN "none"
                         ELSE IF o = "parsed_raises" THEN "raises" ELSE "id:parsed")
        stats == DbCall("save_statistics", None,
                        IF o = "stats_raises" THEN "raises" ELSE "none")
    IN IF o = "raw_raises" THEN <<raw>>
       ELSE IF o = "parsed_raises" THEN <<raw, parsed>>
       ELSE <<raw, parsed, stats>>

\* the calls _save_episode_to_database makes for an outcome
DbCallsFor(o) ==
    LET raw == DbCall("save_original_episode", None,
                      IF o = "raw_none" THEN "none"
                      ELSE IF o = "raw_raises" THEN "raises" ELSE "id:original")
        parsed == DbCall("save_parsed_episode", Some(raw.answer),
                         IF o = "parsed_none" THEN "none"
                         ELSE IF o = "parsed_raises" THEN "raises" ELSE "id:parsed")
        stats == DbCall("save_statistics", None,
                        IF o = "stats_raises" THEN "raises" ELSE "none")
    IN IF o \in {"raw_none", "raw_raises"} THEN <<raw>>
       ELSE IF o \in {"parsed_none", "parsed_raises"} THEN <<raw, parsed>>
       ELSE <<raw, parsed, stats>>

\* SaveEpisode without the try/except of _save_episode_to_database: a
\* persistence call that raises fails the episode
SaveEpisode_ErrorFailsEpisode ==
    /\ pc = "Saving"
    /\ \E o \in DbOutcomes :
         /\ db_calls' = DbCallsFor(o)
         /\ db_error' = (o \in {"raw_raises", "parsed_raises", "stats_raises"})
         /\ IF o \in {"raw_raises", "parsed_raises", "stats_raises"}
              THEN /\ episode_data' = None
                   /\ session_stats' = MarkEpisodeFailed(session_stats)
                   /\ last_log' = "save_failed"
              ELSE /\ last_log' = "episode_completed"
                   /\ UNCHANGED <<episode_data, session_stats>>
    /\ pc' = "Returned"
    /\ UNCHANGED <<stats_before, agent, episodes, episodes_bound, episode_num,
                   raw_data, current_switch_point, selection,
                   output_paths, udp_socket, udp_buffer, modbus_open, sent,
                   q_file, steps, outcome>>
    /\ UNCHANGED call

\* self._save_episode_to_database(parsed_data), then `return parsed_data`
SaveEpisode ==
    /\ pc = "Saving"
    /\ \E o \in DbOutcomes :
         /\ db_calls' = DbCallsFor(o)
         /\ db_error' = (o \in {"raw_raises", "parsed_raises", "stats_raises"})
    /\ last_log' = "episode_completed"
    /\ pc' = "Returned"
    /\ UNCHANGED <<session_stats, stats_before, agent, episodes, episodes_bound, episode_num,
                   raw_data, episode_data, current_switch_point, selection,
                   output_paths, udp_socket, udp_buffer, modbus_open, sent,
                   q_file, steps, outcome>>
    /\ UNCHANGED call

\* `if episode_data:` of run_agent_testing
CheckEpisode ==
    /\ pc = "Returned"
    /\ pc' = IF episode_data = None THEN "Idle" ELSE "LocatingMarker"
    /\ db_calls' = <<>>
    /\ db_error' = FALSE
    /\ UNCHANGED <<session_stats, stats_before, agent, episodes, episodes_bound, episode_num,
                   raw_data, episode_data, current_switch_point, selection,
                   output_paths, udp_socket, udp_buffer, modbus_open, sent,
                   q_file, last_log, steps, outcome>>
    /\ UNCHANGED call

\* weight_sequence[weight_sequence.index(-1) - 1]: Python's index -1 is the
\* last element
ExperiencedSwitchPoint(ws) ==
    LET m == IndexOf(ws, TransitionMarker)
    IN IF m = 1 THEN ws[Len(ws)] ELSE ws[m - 1]

\* current_switch_point = ... ; a missing marker raises ValueError
LocateMarker ==
    /\ pc = "LocatingMarker"
    /\ LET ws == Get(episode_data).weight_sequence
       IN IF TransitionMarker \in Range(ws)
            THEN /\ current_switch_point' = Some(ExperiencedSwitchPoint(ws))
                 /\ pc' = "UpdatingAgent"
                 /\ UNCHANGED <<last_log, outcome>>
            ELSE /\ pc' = "Terminating"
                 /\ last_log' = "testing_error"
                 /\ outcome' = [outcome EXCEPT !.cause = "error"]
                 /\ UNCHANGED current_switch_point
    /\ UNCHANGED <<session_stats, stats_before, agent, episodes, episodes_bound, episode_num,
                   raw_data, episode_data, selection, output_paths, udp_socket,
                   udp_buffer, modbus_open, sent, db_calls, db_error, q_file, steps>>
    /\ UNCHANGED call

\* the try block of _update_agent_with_episode for one outcome of the
\* learner's call (raises: the call throws, caught by `except Exception`)
AgentAfterUpdate(a, fs, switching_point, raises) ==
    IF UpdatePath(a) = "mab"
      THEN IF "_update_q_value" \in a.caps /\ ~raises
             THEN [a EXCEPT !.q_table = UpdateQValue(@, switching_point,
                      CalculateReward(fs.episode_length, fs.final_weight, "mab")),
                            !.update_count = @ + 1]
             ELSE a
    ELSE IF UpdatePath(a) = "train"
      THEN IF "train_episode" \in a.caps /\ ~raises
             THEN [a EXCEPT !.q_table = TrainEpisode(@, switching_point),
                            !.update_count = @ + 1]
             ELSE a
    ELSE a

\* what the try block logs at warning or error level
UpdateLog(a, raises) ==
    IF UpdatePath(a) = "skip" THEN "unknown_agent"
    ELSE IF UpdatePath(a) = "mab" /\ ("_update_q_value" \notin a.caps \/ raises)
      THEN "agent_update_error"
    ELSE IF UpdatePath(a) = "train" /\ ("train_episode" \notin a.caps \/ raises)
      THEN "agent_update_error"
    ELSE "agent_updated"

\* UpdateAgent when the records hold the agent's table itself instead of a
\* copy of it: every record made so far shows the table as it is now
UpdateAgent_TableShared ==
    /\ pc = "UpdatingAgent"
    /\ \E raises \in BOOLEAN :
         /\ raises => UpdatePath(agent) # "skip"
         /\ agent' = AgentAfterUpdate(agent, Get(Get(episode_data).filling_session),
                                      Get(current_switch_point), raises)
         /\ last_log' = UpdateLog(agent, raises)
    /\ episodes' = [ i \in 1..Len(episodes) |->
                       [episodes[i] EXCEPT !.q_value = agent'.q_table] ]
    /\ pc' = "Decaying"
    /\ UNCHANGED <<session_stats, stats_before, episodes_bound, episode_num,
                   raw_data, episode_data, current_switch_point, selection,
                   output_paths, udp_socket, udp_buffer, modbus_open, sent,
                   db_calls, db_error, q_file, steps, outcome>>
    /\ UNCHANGED call

\* _update_agent_with_episode, lines 386-407
UpdateAgent ==
    /\ pc = "UpdatingAgent"
    /\ \E raises \in BOOLEAN :
         /\ raises => UpdatePath(agent) # "skip"
         /\ agent' = AgentAfterUpdate(agent, Get(Get(episode_data).filling_session),
                                      Get(current_switch_point), raises)
         /\ last_log' = UpdateLog(agent, raises)
    /\ pc' = "Decaying"
    /\ UNCHANGED <<session_stats, stats_before, episodes, episodes_bound, episode_num,
                   raw_data, episode_data, current_switch_point, selection,
                   output_paths, udp_socket, udp_buffer, modbus_open, sent,
                   db_calls, db_error, q_file, steps, outcome>>
    /\ UNCHANGED call

\* _update_agent_with_episode, lines 409-412, and the return to the loop
DecayExploration ==
    /\ pc = "Decaying"
    /\ agent' = IF "_update_exploration_rate" \in agent.caps
                  THEN UpdateExplorationRate(agent) ELSE agent
    /\ pc' = "SelectingNextAction"
    /\ steps' = Append(steps, "update")
    /\ UNCHANGED <<session_stats, stats_before, episodes, episodes_bound, episode_num,
                   raw_data, episode_data, current_switch_point, selection,
                   output_paths, udp_socket, udp_buffer, modbus_open, sent,
                   db_calls, db_error, q_file, last_log, outcome>>
    /\ UNCHANGED call

\* the record run_agent_testing builds for the episode
EpisodeRecord(d, num, experienced, model_selected, next, flag, q) ==
    [ episode |-> num + 1,
      switch_point |-> experienced,
      model_selected_switching_point |-> model_selected,
      explored_switching_point |-> IF flag THEN Some(next) ELSE None,
      final_weight |-> d.final_weight,
      termination_type |-> TerminationType(d.final_weight),
      q_value |-> q,
      total_time |-> d.total_time ]

\* termination type, get_optimal_switch_point, select_action, the record
SelectNextAction ==
    /\ pc = "SelectingNextAction"
    /\ \E explore \in BOOLEAN, offset \in SessionOffsets :
         LET model_selected == GetOptimalSwitchPoint(agent.q_table)
             choice == SelectAction(model_selected, explore, offset)
         IN selection' = Some(
              [ next_switch_point |-> choice[1],
                exploration_flag |-> choice[2],
                record |-> EpisodeRecord(Get(episode_data), episode_num,
                              Get(current_switch_point), model_selected,
                              choice[1], choice[2], agent.q_table) ])
    /\ pc' = "Actuating"
    /\ steps' = Append(steps, "select")
    /\ last_log' = "episode_completed"
    /\ UNCHANGED <<session_stats, stats_before, agent, episodes, episodes_bound, episode_num,
                   raw_data, episode_data, current_switch_point, output_paths,
                   udp_socket, udp_buffer, modbus_open, sent, db_calls, db_error, q_file,
                   outcome>>
    /\ UNCHANGED call

\* Actuate with a refused send treated as a failed episode (as the disabled
\* lines at the head of run_episode did): counted as failed, not recorded
Actuate_RefusalFailsEpisode ==
    /\ pc = "Actuating"
    /\ \E accepted \in BOOLEAN :
         /\ sent' = Some([ value |-> Get(selection).next_switch_point,
                           accepted |-> accepted ])
         /\ pc' = IF accepted THEN "WritingQValues" ELSE "Idle"
         /\ session_stats' = IF accepted THEN session_stats
                             ELSE MarkEpisodeFailed(session_stats)
    /\ steps' = Append(steps, "actuate")
    /\ UNCHANGED <<stats_before, agent, episodes, episodes_bound, episode_num,
                   raw_data, episode_data, current_switch_point, selection,
                   output_paths, udp_socket, udp_buffer, modbus_open, db_calls,
                   db_error, q_file, last_log, outcome>>
    /\ UNCHANGED call

\* Actuate sending the model-selected baseline instead of the point
\* select_action returned
Actuate_SendsBaseline ==
    /\ pc = "Actuating"
    /\ \E accepted \in BOOLEAN :
         sent' = Some([ value |-> Get(selection).record.model_selected_switching_point,
                        accepted |-> accepted ])
    /\ pc' = "WritingQValues"
    /\ steps' = Append(steps, "actuate")
    /\ UNCHANGED <<session_stats, stats_before, agent, episodes, episodes_bound, episode_num,
                   raw_data, episode_data, current_switch_point, selection,
                   output_paths, udp_socket, udp_buffer, modbus_open, db_calls, db_error,
                   q_file, last_log, outcome>>
    /\ UNCHANGED call

\* self.modbus_client.send_switching_point(next_switch_point); the result
\* is not looked at
Actuate ==
    /\ pc = "Actuating"
    /\ \E accepted \in BOOLEAN :
         sent' = Some([ value |-> Get(selection).next_switch_point,
                        accepted |-> accepted ])
    /\ pc' = "WritingQValues"
    /\ steps' = Append(steps, "actuate")
    /\ UNCHANGED <<session_stats, stats_before, agent, episodes, episodes_bound, episode_num,
                   raw_data, episode_data, current_switch_point, selection,
                   output_paths, udp_socket, udp_buffer, modbus_open, db_calls, db_error,
                   q_file, last_log, outcome>>
    /\ UNCHANGED call

\* output_paths = logger.get_output_paths() ; write_to_text(agent.q_table, ...)
WriteQValues ==
    /\ pc = "WritingQValues"
    /\ output_paths' = TRUE
    /\ q_file' = Some(agent.q_table)
    /\ pc' = "Recording"
    /\ UNCHANGED <<session_stats, stats_before, agent, episodes, episodes_bound, episode_num,
                   raw_data, episode_data, current_switch_point, selection,
                   udp_socket, udp_buffer, modbus_open, sent, db_calls, db_error,
                   last_log, steps, outcome>>
    /\ UNCHANGED call

\* episodes.append(episode_data) ; current_switch_point = next_switch_point ;
\* episode_num += 1
RecordEpisode ==
    /\ pc = "Recording"
    /\ episodes' = Append(episodes, Get(selection).record)
    /\ current_switch_point' = Some(Get(selection).next_switch_point)
    /\ episode_num' = episode_num + 1
    /\ pc' = "Idle"
    /\ UNCHANGED <<session_stats, stats_before, agent, episodes_bound, raw_data,
                   episode_data, selection, output_paths, udp_socket,
                   udp_buffer, modbus_open, sent, db_calls, db_error, q_file, last_log,
                   steps, outcome>>
    /\ UNCHANGED call

\* the positions inside the try block of run_agent_testing
InTry ==
    pc \in { "Entering", "Idle", "AwaitingTelemetry", "Parsing", "Segmenting",
             "Scoring", "UpdatingStats", "Saving", "Returned",
             "LocatingMarker", "UpdatingAgent", "Decaying",
             "SelectingNextAction", "Actuating", "WritingQValues",
             "Recording" }

\* the operator presses Ctrl-C: KeyboardInterrupt is raised wherever the
\* loop is, and `except KeyboardInterrupt` takes it
Interrupt ==
    /\ InTry
    /\ pc' = "Terminating"
    /\ outcome' = [outcome EXCEPT !.cause = "cancel"]
    /\ last_log' = "testing_interrupted"
    /\ UNCHANGED <<session_stats, stats_before, agent, episodes, episodes_bound, episode_num,
                   raw_data, episode_data, current_switch_point, selection,
                   output_paths, udp_socket, udp_buffer, modbus_open, sent,
                   db_calls, db_error, q_file, steps>>
    /\ UNCHANGED call

\* the finally block: report, disconnect_devices, summary, return episodes.
\* Reading a local name that was never assigned raises, and the exception
\* leaves run_agent_testing before anything else is done.
Finally ==
    /\ pc = "Terminating"
    /\ IF episodes_bound /\ output_paths
         THEN /\ outcome' = [outcome EXCEPT !.report = Some(episodes),
                                            !.summary = Some(session_stats),
                                            !.returned = Some(episodes)]
              /\ udp_socket' = IF udp_socket = "open" THEN "closed" ELSE udp_socket
              /\ modbus_open' = FALSE
              /\ last_log' = "session_summary"
              /\ pc' = "Done"
         ELSE /\ pc' = "Raised"
              /\ UNCHANGED <<outcome, udp_socket, modbus_open, last_log>>
    /\ UNCHANGED <<session_stats, stats_before, agent, episodes, episodes_bound, episode_num,
                   raw_data, episode_data, current_switch_point, selection,
                   output_paths, udp_buffer, sent, db_calls, db_error, q_file, steps>>
    /\ UNCHANGED call

Next ==
    \/ ConnectDevices
    \/ EnterLoop
    \/ StartEpisode
    \/ DeviceSends
    \/ ReceiveTelemetry
    \/ ReceiveSocketError
    \/ Parse
    \/ Segment
    \/ Score
    \/ UpdateStats
    \/ SaveEpisode
    \/ CheckEpisode
    \/ LocateMarker
    \/ UpdateAgent
    \/ DecayExploration
    \/ SelectNextAction
    \/ Actuate
    \/ WriteQValues
    \/ RecordEpisode
    \/ Interrupt
    \/ Finally

Spec == Init /\ [][Next]_vars

\* the steps the interpreter takes by itself; the device, the socket and
\* the operator (DeviceSends, ReceiveSocketError, Interrupt) are not bound
\* to act
ProgramNext ==
    \/ ConnectDevices \/ EnterLoop \/ StartEpisode \/ ReceiveTelemetry
    \/ Parse \/ Segment \/ Score \/ UpdateStats \/ SaveEpisode
    \/ CheckEpisode \/ LocateMarker \/ UpdateAgent \/ DecayExploration
    \/ SelectNextAction \/ Actuate \/ WriteQValues \/ RecordEpisode
    \/ Finally

\* the running program keeps executing its next statement
FairSpec == Spec /\ WF_vars(ProgramNext)

-----------------------------------------------------------------------------
(* The functions of the loop called on their own: one call, its inputs     *)
(* drawn by the initial state, its result in `call`.                       *)

\* EXPLORATION_STEPS with a step beyond five units
EXPLORATION_STEPS_Far == <<1, 2, 3, 4, 6>>

\* EXPLORATION_STEPS and EXPLORATION_PROBABILITIES (in hundredths)
EXPLORATION_STEPS == <<1, 2, 3, 4, 5>>
EXPLORATION_PROBABILITIES == <<33, 27, 20, 13, 7>>

\* how far around each edge of the safe band final weights are drawn
BandMargin == 3

\* calls of _update_exploration_rate made in a row
MaxRateUpdates == 15

\* final weights around both edges of the scaled band, and the overweight
\* fill of the recorded transcript
FinalWeights ==
    (RealToleranceLimits[1] - BandMargin)..(RealToleranceLimits[1] + BandMargin)
    \cup (RealToleranceLimits[2] - BandMargin)..(RealToleranceLimits[2] + BandMargin)
    \cup {OverflowTranscript.weights[3], UnderflowTranscript.weights[2]}

\* the signed steps select_action can draw: a step of EXPLORATION_STEPS in
\* either direction
ExplorationOffsets ==
    {EXPLORATION_STEPS[i] : i \in DOMAIN EXPLORATION_STEPS}
    \cup {-EXPLORATION_STEPS[i] : i \in DOMAIN EXPLORATION_STEPS}

\* exploration rates an agent is constructed with
InitialRates ==
    { DEFAULT_EXPLORATION_RATE, DEFAULT_EXPLORATION_MIN_RATE + 2,
      DEFAULT_EXPLORATION_MIN_RATE }

\* a fill that ends at final weight fw, scored as run_agent_testing does
ClassifyCalls ==
    { [ fn |-> "classify",
        input |-> Transcript(<<450000, TransitionMarker, fw>>, FALSE),
        result |-> None ] : fw \in FinalWeights }

\* agent.select_action(baseline) with the outcome of its random draws
SelectActionCalls ==
    { [ fn |-> "select_action",
        input |-> [baseline |-> b, explore |-> e, offset |-> o],
        result |-> None ] :
      b \in {DEFAULT_STARTING_SWITCH_POINT, DEFAULT_STARTING_SWITCH_POINT + 1},
      e \in BOOLEAN, o \in ExplorationOffsets }

\* agent._update_exploration_rate() on a fresh agent, episode after episode
UpdateRateCalls ==
    { [ fn |-> "_update_exploration_rate",
        input |-> r,
        result |-> Some([NewAgent("QLearningAgent",
                                  {"_update_q_value", "_update_exploration_rate"})
                         EXCEPT !.exploration_rate = r]) ] :
      r \in InitialRates }

\* the reward calculators a tester can be constructed with: the default one
\* and one with a band of its own
RewardCalculators ==
    { [ safe_weight_min |-> DEFAULT_SAFE_WEIGHT_MIN,
        safe_weight_max |-> DEFAULT_SAFE_WEIGHT_MAX ],
      [ safe_weight_min |-> DEFAULT_SAFE_WEIGHT_MIN - 4,
        safe_weight_max |-> DEFAULT_SAFE_WEIGHT_MAX + 4 ] }

\* the quantization steps a tester can be constructed with
QuantizationSteps ==
    { DEFAULT_WEIGHT_QUANTIZATION_STEP, DEFAULT_WEIGHT_QUANTIZATION_STEP \div 10 }

\* a scored fill in a tester constructed with a reward calculator and a
\* quantization step
ClassifyWithCalls ==
    { [ fn |-> "classify_with",
        input |-> [ final_weight |-> fw, reward_calculator |-> rc,
                    quantization_step |-> qs ],
        result |-> None ] :
      fw \in FinalWeights, rc \in RewardCalculators, qs \in QuantizationSteps }

FunctionInit ==
    /\ pc = "Function"
    /\ \E c \in ClassifyCalls \cup SelectActionCalls \cup UpdateRateCalls
                 \cup ClassifyWithCalls :
         call = Some(c)
    /\ session_stats = InitialStats
    /\ stats_before = InitialStats
    /\ agent = NewAgent("QLearningAgent",
                        {"_update_q_value", "_update_exploration_rate"})
    /\ episodes = <<>>
    /\ episodes_bound = FALSE
    /\ episode_num = 0
    /\ raw_data = None
    /\ episode_data = None
    /\ current_switch_point = None
    /\ selection = None
    /\ output_paths = FALSE
    /\ udp_socket = "none"
    /\ udp_buffer = None
    /\ modbus_open = FALSE
    /\ sent = None
    /\ db_calls = <<>>
    /\ db_error = FALSE
    /\ q_file = None
    /\ last_log = "none"
    /\ steps = <<>>
    /\ outcome = NoOutcome

sessionVars ==
    <<pc, session_stats, stats_before, agent, episodes, episodes_bound,
      episode_num, raw_data, episode_data, current_switch_point, selection,
      output_paths, udp_socket, udp_buffer, modbus_open, sent, db_calls,
      db_error, q_file, last_log, steps, outcome>>

\* parse, the termination type of lines 249-256 and the statistics class
\* of _update_session_stats for one fill
Classify ==
    /\ pc = "Function"
    /\ Get(call).fn = "classify"
    /\ Get(call).result = None
    /\ LET d == Get(ParseRawData(Get(call).input))
       IN call' = Some([Get(call) EXCEPT !.result = Some(
              [ final_weight |-> d.final_weight,
                overflow_amount |-> d.overflow_amount,
                underflow_amount |-> d.underflow_amount,
                termination_type |-> TerminationType(d.final_weight),
                stats |-> UpdateSessionStats(InitialStats, d) ])])
    /\ UNCHANGED sessionVars

\* the termination type of lines 249-256 for a tester's reward calculator
\* and data processor
TerminationTypeWith(final_weight, reward_calculator, quantization_step) ==
    IF final_weight < reward_calculator.safe_weight_min * quantization_step
        THEN "underweight"
    ELSE IF final_weight > reward_calculator.safe_weight_max * quantization_step
        THEN "overweight"
    ELSE "safe"

\* real_tolerance_limits of __init__ for a quantization step, and the
\* amounts the data processor derives from them
ToleranceLimits(quantization_step) ==
    <<DEFAULT_SAFE_WEIGHT_MIN * quantization_step,
      DEFAULT_SAFE_WEIGHT_MAX * quantization_step>>

Amounts(final_weight, limits) ==
    [ overflow_amount  |-> Max(0, final_weight - limits[2]),
      underflow_amount |-> Max(0, limits[1] - final_weight) ]

\* the record's termination type and the statistics class of one fill in a
\* configured tester
ClassifyWith ==
    /\ pc = "Function"
    /\ Get(call).fn = "classify_with"
    /\ Get(call).result = None
    /\ LET in == Get(call).input
       IN call' = Some([Get(call) EXCEPT !.result = Some(
              [ termination_type |->
                    TerminationTypeWith(in.final_weight, in.reward_calculator,
                                        in.quantization_step),
                stats |-> UpdateSessionStats(InitialStats,
                              Amounts(in.final_weight,
                                      ToleranceLimits(in.quantization_step))) ])])
    /\ UNCHANGED sessionVars

\* lines 261-265: select_action and the explored switching point
SelectActionCall ==
    /\ pc = "Function"
    /\ Get(call).fn = "select_action"
    /\ Get(call).result = None
    /\ LET in == Get(call).input
           choice == SelectAction(in.baseline, in.explore, in.offset)
       IN call' = Some([Get(call) EXCEPT !.result = Some(
              [ next_switch_point |-> choice[1],
                exploration_flag |-> choice[2],
                explored_switch_point |->
                    IF choice[2] THEN Some(choice[1]) ELSE None ])])
    /\ UNCHANGED sessionVars

\* lines 409-411 once more on the same agent
UpdateRateCall ==
    /\ pc = "Function"
    /\ Get(call).fn = "_update_exploration_rate"
    /\ Get(Get(call).result).episode_count < MaxRateUpdates
    /\ call' = Some([Get(call) EXCEPT !.result =
                        Some(UpdateExplorationRate(Get(@)))])
    /\ UNCHANGED sessionVars

FunctionNext ==
    \/ Classify
    \/ ClassifyWith
    \/ SelectActionCall
    \/ UpdateRateCall

FunctionSpec == FunctionInit /\ [][FunctionNext]_vars

-----------------------------------------------------------------------------
(* run_manual_testing: one session over a list of switching points given   *)
(* by the operator.  The list is the input of `call`.                      *)

\* bound on the length of the list of switching points
MaxPoints == 2

\* the switching points an operator lists
ManualSwitchPoints ==
    { DEFAULT_STARTING_SWITCH_POINT - 1, DEFAULT_STARTING_SWITCH_POINT,
      DEFAULT_STARTING_SWITCH_POINT + 1 }

RECURSIVE ListsUpTo(_, _)
ListsUpTo(S, n) ==
    IF n = 0 THEN { <<>> }
    ELSE LET shorter == ListsUpTo(S, n - 1)
         IN shorter \cup { Append(l, x) : l \in shorter, x \in S }

ManualCalls ==
    { [ fn |-> "run_manual_testing", input |-> switching_points, result |-> None ] :
      switching_points \in ListsUpTo(ManualSwitchPoints, MaxPoints) }

\* the parameters of run_episode besides self (line 102), and whether a call
\* with the given positional arguments binds to them
RunEpisodeParameters == <<>>

Binds(parameters, arguments) == Len(arguments) = Len(parameters)

ManualInit ==
    /\ pc = "ManualConnecting"
    /\ \E c \in ManualCalls : call = Some(c)
    /\ session_stats = InitialStats
    /\ stats_before = InitialStats
    /\ agent \in Agents
    /\ episodes = <<>>
    /\ episodes_bound = FALSE
    /\ episode_num = 0
    /\ raw_data = None
    /\ episode_data = None
    /\ current_switch_point = None
    /\ selection = None
    /\ output_paths = FALSE
    /\ udp_socket = "none"
    /\ udp_buffer = None
    /\ modbus_open = FALSE
    /\ sent = None
    /\ db_calls = <<>>
    /\ db_error = FALSE
    /\ q_file = None
    /\ last_log = "none"
    /\ steps = <<>>
    /\ outcome = NoOutcome

\* the variables run_manual_testing leaves alone
manualUnchanged ==
    <<stats_before, agent, raw_data, episode_data, current_switch_point,
      selection, output_paths, udp_buffer, sent, db_calls, db_error, q_file,
      call>>

\* lines 327-329: connect_devices and the early return
ManualConnect ==
    /\ pc = "ManualConnecting"
    /\ \E udp_connected \in BOOLEAN, modbus_connected \in BOOLEAN :
         /\ udp_socket' = IF udp_connected THEN "open" ELSE "none"
         /\ modbus_open' = modbus_connected
         /\ IF udp_connected /\ modbus_connected
              THEN /\ pc' = "ManualEntering"
                   /\ UNCHANGED <<outcome, last_log>>
              ELSE /\ pc' = "NotConnected"
                   /\ last_log' = "connect_failed"
                   /\ outcome' = [outcome EXCEPT !.returned = Some(<<>>)]
    /\ UNCHANGED <<session_stats, episodes, episodes_bound, episode_num, steps>>
    /\ UNCHANGED manualUnchanged

\* line 331: episodes = [], and the start of the for loop
ManualEnter ==
    /\ pc = "ManualEntering"
    /\ episodes' = <<>>
    /\ episodes_bound' = TRUE
    /\ episode_num' = 1
    /\ pc' = "ManualIterating"
    /\ UNCHANGED <<session_stats, udp_socket, modbus_open, last_log, steps, outcome>>
    /\ UNCHANGED manualUnchanged

\* lines 334-345: one turn of the for loop.  self.run_episode(switching_point)
\* is a call with one positional argument; a call that does not bind raises
\* TypeError before run_episode is entered, and `except Exception` takes it.
\* A call that binds runs the episode, which succeeds or fails.
ManualIterate ==
    /\ pc = "ManualIterating"
    /\ LET switching_points == Get(call).input
       IN IF episode_num > Len(switching_points)
            THEN /\ pc' = "ManualTerminating"
                 /\ UNCHANGED <<session_stats, episodes, episode_num, last_log,
                                steps, outcome>>
          ELSE IF ~Binds(RunEpisodeParameters, <<switching_points[episode_num]>>)
            THEN /\ pc' = "ManualTerminating"
                 /\ last_log' = "testing_error"
                 /\ outcome' = [outcome EXCEPT !.cause = "error"]
                 /\ UNCHANGED <<session_stats, episodes, episode_num, steps>>
          ELSE \E succeeded \in BOOLEAN :
                 /\ steps' = Append(steps, "episode")
                 /\ episodes' = IF succeeded
                                  THEN Append(episodes,
                                         [ switching_point |->
                                               switching_points[episode_num] ])
                                  ELSE episodes
                 /\ session_stats' = IF succeeded
                                       THEN Bump(Bump(session_stats, "total_episodes"),
                                                 "successful_episodes")
                                       ELSE MarkEpisodeFailed(session_stats)
                 /\ last_log' = IF succeeded THEN "episode_completed"
                                ELSE "episode_failed"
                 /\ episode_num' = episode_num + 1
                 /\ pc' = "ManualIterating"
                 /\ UNCHANGED outcome
    /\ UNCHANGED <<episodes_bound, udp_socket, modbus_open>>
    /\ UNCHANGED manualUnchanged

\* lines 347-348: Ctrl-C inside the try block
ManualInterrupt ==
    /\ pc = "ManualIterating"
    /\ pc' = "ManualTerminating"
    /\ outcome' = [outcome EXCEPT !.cause = "cancel"]
    /\ last_log' = "testing_interrupted"
    /\ UNCHANGED <<session_stats, episodes, episodes_bound, episode_num,
                   udp_socket, modbus_open, steps>>
    /\ UNCHANGED manualUnchanged

\* lines 351-355: disconnect_devices, the summary, return episodes (the
\* list is bound at line 331, before the try block is entered)
ManualFinally ==
    /\ pc = "ManualTerminating"
    /\ udp_socket' = IF udp_socket = "open" THEN "closed" ELSE udp_socket
    /\ modbus_open' = FALSE
    /\ outcome' = [outcome EXCEPT !.summary = Some(session_stats),
                                  !.returned = Some(episodes)]
    /\ last_log' = "session_summary"
    /\ pc' = "Done"
    /\ UNCHANGED <<session_stats, episodes, episodes_bound, episode_num, steps>>
    /\ UNCHANGED manualUnchanged

ManualNext ==
    \/ ManualConnect
    \/ ManualEnter
    \/ ManualIterate
    \/ ManualInterrupt
    \/ ManualFinally

ManualSpec == ManualInit /\ [][ManualNext]_vars

-----------------------------------------------------------------------------
(* The socket clients of src/src/tcp_client.py on their own: one client,   *)
(* a bounded number of calls of connect, receive_data and close.  The      *)
(* client is the result of `call`: client_socket is "none" (None), "open"  *)
(* (a connected socket) or "closed" (a socket object that was closed), and *)
(* history lists the calls made with what each of them did.                *)

\* bound on the number of calls made on one client
MaxClientCalls == 4

ClientClasses == {"TCPClient", "UDPClient"}

\* __init__: self.client_socket = None
NewClient(class) ==
    [ fn |-> "client", input |-> class,
      result |-> Some([ client_socket |-> "none", history |-> <<>> ]) ]

ClientInit ==
    /\ pc = "Client"
    /\ \E class \in ClientClasses : call = Some(NewClient(class))
    /\ session_stats = InitialStats
    /\ stats_before = InitialStats
    /\ agent \in Agents
    /\ episodes = <<>>
    /\ episodes_bound = FALSE
    /\ episode_num = 0
    /\ raw_data = None
    /\ episode_data = None
    /\ current_switch_point = None
    /\ selection = None
    /\ output_paths = FALSE
    /\ udp_socket = "none"
    /\ udp_buffer = None
    /\ modbus_open = FALSE
    /\ sent = None
    /\ db_calls = <<>>
    /\ db_error = FALSE
    /\ q_file = None
    /\ last_log = "none"
    /\ steps = <<>>
    /\ outcome = NoOutcome

Client == Get(Get(call).result)

\* the client after a call that left client_socket as given
ClientAfter(op, client_socket, did, read) ==
    Some([Get(call) EXCEPT !.result = Some(
        [ client_socket |-> client_socket,
          history |-> Append(Client.history,
                        [ op |-> op, did |-> did, read |-> read ]) ])])

ClientCallable ==
    /\ pc = "Client"
    /\ Len(Client.history) < MaxClientCalls

\* connect of both classes: a new socket, or None when anything raised
ClientConnect ==
    /\ ClientCallable
    /\ \E connected \in BOOLEAN :
         call' = ClientAfter("connect",
                             IF connected THEN "open" ELSE "none",
                             IF connected THEN "connected" ELSE "connect_failed",
                             FALSE)
    /\ UNCHANGED sessionVars

\* what reading a socket gives: recv on an open socket returns data, runs
\* into the timeout or raises; recv on a closed socket raises OSError.
\* TCPClient catches every exception and returns None; UDPClient catches
\* socket.timeout only.
ReadOutcomes(client_socket) ==
    IF client_socket = "open" THEN {"data", "no_data", "socket_error"}
    ELSE {"socket_error"}

\* TCPClient.receive_data and UDPClient.receive_data: `if not
\* self.client_socket` is true for None only
ClientReceiveData ==
    /\ ClientCallable
    /\ IF Client.client_socket = "none"
         THEN call' = ClientAfter("receive_data", Client.client_socket,
                                  "not_connected", FALSE)
         ELSE \E got \in ReadOutcomes(Client.client_socket) :
                call' = ClientAfter("receive_data", Client.client_socket,
                                    got, TRUE)
    /\ UNCHANGED sessionVars

\* TCPClient.close closes the socket and sets client_socket to None;
\* UDPClient.close closes the socket and keeps the attribute
ClientClose ==
    /\ ClientCallable
    /\ IF Client.client_socket = "none"
         THEN call' = ClientAfter("close", "none", "nothing", FALSE)
         ELSE call' = ClientAfter("close",
                                  IF Get(call).input = "TCPClient"
                                    THEN "none" ELSE "closed",
                                  "socket_closed", FALSE)
    /\ UNCHANGED sessionVars

ClientNext ==
    \/ ClientConnect
    \/ ClientReceiveData
    \/ ClientClose

ClientSpec == ClientInit /\ [][ClientNext]_vars

-----------------------------------------------------------------------------
(* The report writer: src/src/file_handler.py *)

green_fill  == "C6EFCE"
yellow_fill == "FFEB9C"
red_fill    == "FFC7CE"

\* the fill of the "Result" row: a dict lookup with green as the default
ResultFill(value) ==
    IF value = "Normal" THEN green_fill
    ELSE IF value = "Underflow" THEN yellow_fill
    ELSE IF value = "Overflow" THEN red_fill
    ELSE green_fill

\* write_qvalue_updates_to_excel: the Result cell of every episode's block,
\* its value and its fill
ResultCells(all_episodes_info) ==
    [ i \in 1..Len(all_episodes_info) |->
        [ value |-> all_episodes_info[i].termination_type,
          fill  |-> ResultFill(all_episodes_info[i].termination_type) ] ]

-----------------------------------------------------------------------------
(* Claims *)

IsPrefix(s, t) == Len(s) <= Len(t) /\ \A i \in 1..Len(s) : s[i] = t[i]

\* the order of an episode's steps
EpisodeOrder ==
    <<"receive", "parse", "segment", "score", "update", "select", "actuate">>

StepsInOrder == IsPrefix(steps, EpisodeOrder)

\* a call of send_switching_point is the last step of an episode whose
\* agent update and selection are complete
SendAfterUpdate ==
    (sent' # sent) =>
        /\ steps = SubSeq(EpisodeOrder, 1, 6)
        /\ steps' = EpisodeOrder

\* C1: in every loop iteration the steps receive, parse, segment, score,
\* update agent, select, actuate happen in this order, each at most once;
\* a switching point is sent only as the last of them, after the agent
\* update of the same episode, so at most once per episode.
C1_EpisodeOrder == [](StepsInOrder) /\ [][SendAfterUpdate]_vars

\* C1 witness: the second episode has gone through all seven steps
C1_Witness ==
    /\ pc = "Recording"
    /\ episode_num = 2
    /\ steps = EpisodeOrder
    /\ sent # None

\* a parse or segmentation failure: run_episode returns None
FailureReturn == pc \in {"Parsing", "Segmenting"} /\ pc' = "Returned"

FailureIsCounted ==
    FailureReturn =>
        /\ episode_data' = None
        /\ session_stats' = [session_stats EXCEPT !.failed_episodes = @ + 1]

\* the loop takes the None: back to the top, nothing updated, nothing sent;
\* only the operator's Ctrl-C ends the session there
FailureIsSkipped ==
    (pc = "Returned" /\ episode_data = None) =>
        /\ agent' = agent /\ sent' = sent /\ episodes' = episodes
        /\ \/ pc' = "Idle"
           \/ pc' = "Terminating" /\ outcome'.cause = "cancel"

\* the loop top after a failed iteration: the next run_episode call
LoopGoesOn ==
    (pc = "Idle" /\ raw_data # None /\ episode_data = None) =>
        /\ agent' = agent /\ sent' = sent /\ episodes' = episodes
        /\ \/ pc' = "AwaitingTelemetry"
           \/ pc' = "Terminating" /\ outcome'.cause = "cancel"

\* C2: when parsing or segmenting fails, failed_episodes grows by one (and
\* no other counter changes), the agent is not updated, nothing is sent, and
\* the loop returns to its top and calls run_episode again; the failure
\* does not end the session.
C2_FailedEpisode ==
    [][FailureIsCounted /\ FailureIsSkipped /\ LoopGoesOn]_vars

\* C2 witness: the first episode failed and the loop is waiting for the
\* telemetry of the next one, with the agent untouched and nothing sent
C2_Witness ==
    /\ pc = "AwaitingTelemetry"
    /\ session_stats.failed_episodes = 1
    /\ session_stats.total_episodes = 0
    /\ agent.q_table = <<>>
    /\ sent = None

Cancelled ==
    outcome.cause = "cancel" /\ episodes_bound /\ pc \in {"Done", "Raised"}

\* C4: whenever a session is cancelled after the devices were connected,
\* at whatever point of the loop, the episode report is written, the
\* devices are disconnected, the summary is produced and the recorded
\* episodes are returned.
C4_CancelFlushes ==
    Cancelled =>
        /\ pc = "Done"
        /\ outcome.report = Some(episodes)
        /\ udp_socket # "open" /\ ~modbus_open
        /\ outcome.summary = Some(session_stats)
        /\ outcome.returned = Some(episodes)

\* the learner exposes the exploration-decay step
Decays(a) == "_update_exploration_rate" \in a.caps

\* statistics, value table and decay step all stand at the same episode
AllThreeAgree ==
    /\ session_stats.successful_episodes = agent.update_count
    /\ Decays(agent) => agent.episode_count = agent.update_count

\* C5: at the end of every episode (the loop is back at its top) and in
\* every snapshot that was written (the value-table file, the report and
\* summary), statistics, value table and exploration-decay step reflect the
\* same episodes: all three the last episode, or none of them.
C5_AllOrNothing ==
    /\ pc = "Idle" => AllThreeAgree
    /\ (pc = "Recording" /\ q_file = Some(agent.q_table)) => AllThreeAgree
    /\ pc = "Done" => AllThreeAgree

\* the positions between the statistics update of an episode and the end of
\* its agent update
MidUpdate ==
    \/ pc \in {"Saving", "LocatingMarker", "UpdatingAgent", "Decaying"}
    \/ pc = "Returned" /\ episode_data # None

CancelOnlyAtBoundary ==
    (pc' = "Terminating" /\ outcome'.cause = "cancel") => ~MidUpdate

ReportMatchesStatistics ==
    (pc = "Done" /\ outcome.cause = "cancel") =>
        Get(outcome.summary).successful_episodes = Len(Get(outcome.report))

\* C6: a cancellation is acted on only between control-loop states, never
\* between the statistics update and the agent update of an episode, so
\* the statistics reported at session end count no episode whose record is
\* missing from the report.
C6_CooperativeCancel ==
    [](ReportMatchesStatistics) /\ [][CancelOnlyAtBoundary]_vars

\* the counters the current iteration has changed so far
IterationCounters == CountersChanged(stats_before, session_stats)

\* C7: every failure path of an episode (no telemetry, parse failure,
\* segmentation failure, agent-update failure, actuation failure) has
\* incremented exactly one statistics counter.
C7_FailureCounted ==
    /\ (pc = "AwaitingTelemetry" /\ last_log = "no_data") => IterationCounters = 1
    /\ (pc = "Returned" /\ episode_data = None) => IterationCounters = 1
    /\ (pc = "Decaying" /\ last_log = "agent_update_error") => IterationCounters = 1
    /\ (pc = "WritingQValues" /\ ~Get(sent).accepted) => IterationCounters = 1

\* the type names _update_agent_with_episode knows
KnownKinds ==
    {"QLearningAgent", "MonteCarloAgent", "TDAgent", "StandardQLearningAgent"}

UnknownKind(a) == a.type \notin KnownKinds

\* the operator's Ctrl-C, which may end the session anywhere
CancelStep == pc' = "Terminating" /\ outcome'.cause = "cancel"

\* for a learner of unknown kind the update call changes no estimate, logs
\* the warning and returns, and the loop goes on to select and to actuate
UnknownLearnerProceeds ==
    (UnknownKind(agent) /\ ~CancelStep) =>
        /\ pc = "UpdatingAgent" =>
              /\ pc' = "Decaying"
              /\ last_log' = "unknown_agent"
              /\ agent' = agent
        /\ pc = "Decaying" =>
              /\ pc' = "SelectingNextAction"
              /\ agent'.q_table = agent.q_table
        /\ pc = "SelectingNextAction" => pc' = "Actuating" /\ selection' # None
        /\ pc = "Actuating" =>
              /\ pc' = "WritingQValues"
              /\ Get(sent').value = Get(selection).next_switch_point

\* C8: a learner of unknown or unsupported kind gets no value-table update,
\* _update_agent_with_episode raises nothing to the loop, and the loop
\* proceeds to select and actuate the next switching point.
C8_UnknownLearnerSkipped ==
    /\ [](UnknownKind(agent) => agent.q_table = <<>> /\ agent.update_count = 0)
    /\ [][UnknownLearnerProceeds]_vars

\* C8 witness: with a learner of unknown kind an episode has got as far as
\* the actuation, the value table untouched
C8_Witness ==
    /\ UnknownKind(agent)
    /\ "_update_q_value" \in agent.caps
    /\ pc = "WritingQValues"
    /\ steps = EpisodeOrder
    /\ agent.q_table = <<>>

\* the type names of the session's learners
TypeNames == {a.type : a \in Agents}

\* C9: the update the loop makes depends only on the capabilities of the
\* learner: a learner with the same capabilities under any other type name
\* gets the same update.
C9_CapabilityDispatch ==
    pc = "UpdatingAgent" =>
        \A t \in TypeNames, raises \in BOOLEAN :
            LET fs == Get(Get(episode_data).filling_session)
                sp == Get(current_switch_point)
                renamed == [agent EXCEPT !.type = t]
            IN AgentAfterUpdate(renamed, fs, sp, raises).q_table
                  = AgentAfterUpdate(agent, fs, sp, raises).q_table

\* the last call of send_switching_point was refused
SendFailed == sent # None /\ ~Get(sent).accepted

\* after a refused send the iteration ends like any other: the record is
\* appended, the episode number advances, the loop is back at its top
FailedSendIsRecoverable ==
    (SendFailed /\ ~CancelStep) =>
        /\ pc = "WritingQValues" => pc' = "Recording"
        /\ pc = "Recording" =>
              /\ pc' = "Idle"
              /\ episodes' = Append(episodes, Get(selection).record)
              /\ episode_num' = episode_num + 1
              /\ session_stats' = session_stats
              /\ session_stats.successful_episodes = Len(episodes')

\* C10: when sending the chosen switching point fails, the episode is
\* still recorded and counted, the episode number advances and the loop
\* continues with the next episode.
C10_FailedSendRecoverable ==
    /\ [][FailedSendIsRecoverable]_vars
    /\ []((pc = "Actuating") => session_stats.successful_episodes = Len(episodes) + 1)

\* C10 witness: the first episode's send was refused, and the loop is
\* awaiting the second episode with the first one recorded and counted
C10_Witness ==
    /\ SendFailed
    /\ pc = "AwaitingTelemetry"
    /\ episode_num = 2
    /\ Len(episodes) = 1
    /\ session_stats.total_episodes = 1

\* a fill has been classified
Classified ==
    /\ call # None
    /\ Get(call).fn = "classify"
    /\ Get(call).result # None

Terminated(final_weight) ==
    IF final_weight < 740000 THEN "Underflow"
    ELSE IF final_weight > 760000 THEN "Overflow"
    ELSE "Safe"

\* C12: in the written report the Result cell of every episode is green
\* when the episode terminated Safe, yellow when it terminated Underflow and
\* red when it terminated Overflow.
C12_ResultColour ==
    outcome.report # None =>
        LET records == Get(outcome.report)
            cells == ResultCells(records)
        IN \A i \in 1..Len(records) :
             /\ Terminated(records[i].final_weight) = "Safe"
                    => cells[i].fill = "C6EFCE"
             /\ Terminated(records[i].final_weight) = "Underflow"
                    => cells[i].fill = "FFEB9C"
             /\ Terminated(records[i].final_weight) = "Overflow"
                    => cells[i].fill = "FFC7CE"

\* C13: when connect_devices fails, the session ends with a clean shutdown:
\* every device that was connected is disconnected and the session summary
\* is produced before run_agent_testing returns.
C13_ConnectFailureShutsDown ==
    (pc = "NotConnected" /\ outcome.returned # None) =>
        /\ udp_socket # "open"
        /\ ~modbus_open
        /\ outcome.summary # None

\* a persistence call of the episode raised
PersistenceFailed == pc = "Returned" /\ db_error

\* the step in which a persistence call raises returns the episode data and
\* leaves the statistics as _update_session_stats set them for the episode
SaveFailureKeepsEpisode ==
    (pc = "Saving" /\ db_error') =>
        /\ pc' = "Returned"
        /\ episode_data' # None
        /\ episode_data' = episode_data
        /\ session_stats' = session_stats
        /\ session_stats'.successful_episodes
              = stats_before.successful_episodes + 1
        /\ session_stats'.failed_episodes = stats_before.failed_episodes

\* after it the loop goes into the agent update, unless the operator stops
\* the session
SaveFailureReachesUpdate ==
    (PersistenceFailed /\ pc' # pc /\ pc' # "Terminating") =>
        /\ pc' = "LocatingMarker"
        /\ TransitionMarker \in Range(Get(episode_data').weight_sequence)
        /\ session_stats' = session_stats

\* C14: a failure of a persistence call (save_original_episode,
\* save_parsed_episode, save_statistics) does not fail the episode:
\* run_episode still returns the episode data, the session statistics
\* already updated for the episode stay as they are, and the loop goes on
\* to update the agent.
C14_PersistenceNonFatal ==
    /\ [](PersistenceFailed => episode_data # None)
    /\ [][SaveFailureKeepsEpisode /\ SaveFailureReachesUpdate]_vars

\* run_episode has returned an episode one of whose persistence calls
\* raised, counted as successful
C14_Witness ==
    /\ PersistenceFailed
    /\ Len(db_calls) = 2
    /\ db_calls[2].fn = "save_parsed_episode"
    /\ db_calls[2].answer = "raises"
    /\ episode_data # None
    /\ session_stats.successful_episodes = 1
    /\ session_stats.failed_episodes = 0

\* the switching point the device holds was chosen by an exploring
\* select_action: the point last sent is not the baseline the agent gave
\* then (select_action returns the baseline itself when the trial fails)
OwnSelectionExplored ==
    Get(sent).value # episodes[Len(episodes)].model_selected_switching_point

\* C15: the record of an episode reports it as exploratory (carries an
\* explored switching point) if and only if the select_action call that
\* chose the switching point used in that episode returned the exploration
\* flag true.  Stated for the episodes whose point a select_action chose
\* and the device accepted.
C15_ExploratoryRecord ==
    ( /\ pc = "Actuating"
      /\ Len(episodes) >= 1
      /\ sent # None
      /\ Get(sent).accepted ) =>
        ( (Get(selection).record.explored_switching_point # None)
            <=> OwnSelectionExplored )

\* C16: the experienced switching point used to update the agent and written
\* to the record is the weight of the sample immediately preceding the
\* transition marker of the episode's weight sequence, wherever the marker
\* is, also when it is the first sample.
C16_SamplePrecedingMarker ==
    (pc \in {"UpdatingAgent", "Actuating"}) =>
        LET ws == Get(episode_data).weight_sequence
            m == IndexOf(ws, TransitionMarker)
            used == IF pc = "UpdatingAgent" THEN Get(current_switch_point)
                    ELSE Get(selection).record.switch_point
        IN /\ m > 1
           /\ used = ws[m - 1]

\* the transcript of the episode in progress decodes but holds no marker
NoMarkerEpisode ==
    /\ raw_data # None
    /\ ~Get(raw_data).malformed
    /\ TransitionMarker \notin Range(Get(raw_data).weights)

\* what the loop does with such an episode: the parse step marks it failed
\* and leaves switching point and agent alone; the next step of the loop is
\* the next iteration
NoMarkerIsSkipped ==
    /\ (NoMarkerEpisode /\ pc = "Parsing" /\ pc' # "Terminating") =>
          /\ pc' = "Returned"
          /\ episode_data' = None
          /\ session_stats' = Bump(session_stats, "failed_episodes")
          /\ UNCHANGED <<current_switch_point, agent, sent, episodes>>
    /\ (NoMarkerEpisode /\ pc = "Returned" /\ pc' # pc /\ pc' # "Terminating") =>
          /\ pc' = "Idle"
          /\ UNCHANGED <<current_switch_point, agent, sent, episodes,
                         session_stats, episode_num>>

RECURSIVE SumOf(_)
SumOf(seq) == IF seq = <<>> THEN 0 ELSE Head(seq) + SumOf(Tail(seq))

\* a call of select_action has returned
Selected ==
    /\ call # None
    /\ Get(call).fn = "select_action"
    /\ Get(call).result # None

\* C18: select_action(baseline) returns (baseline, false) when the
\* exploration trial fails, and otherwise (candidate, true) with the
\* candidate exactly s units from the baseline for an s in {1,2,3,4,5}, in
\* either direction; it never returns a point farther than 5 units from the
\* baseline; the configured step probabilities decrease with s and sum to 1.
C18_SelectAction ==
    /\ Selected =>
         LET in == Get(call).input
             r == Get(Get(call).result)
             distance == Abs(r.next_switch_point - in.baseline)
         IN /\ ~in.explore => /\ r.next_switch_point = in.baseline
                              /\ r.exploration_flag = FALSE
            /\ in.explore => /\ r.exploration_flag = TRUE
                             /\ distance \in {1, 2, 3, 4, 5}
            /\ distance <= 5
    /\ Len(EXPLORATION_PROBABILITIES) = Len(EXPLORATION_STEPS)
    /\ \A i \in 1..(Len(EXPLORATION_PROBABILITIES) - 1) :
          /\ EXPLORATION_STEPS[i] < EXPLORATION_STEPS[i + 1]
          /\ EXPLORATION_PROBABILITIES[i] > EXPLORATION_PROBABILITIES[i + 1]
    /\ SumOf(EXPLORATION_PROBABILITIES) = 100

\* select_action has explored five units below the baseline
C18_Witness ==
    /\ Selected
    /\ Get(call).input.explore
    /\ Get(Get(call).result).exploration_flag
    /\ Get(Get(call).result).next_switch_point = Get(call).input.baseline - 5

\* rate * 0.995^n in thousandths, rounded as each multiplication rounds
RECURSIVE Decayed(_, _)
Decayed(rate, n) ==
    IF n = 0 THEN rate ELSE Decayed((rate * 995) \div 1000, n - 1)

\* the agent of a row of _update_exploration_rate calls
RateAgent == Get(Get(call).result)

RateUpdated ==
    /\ call # None
    /\ Get(call).fn = "_update_exploration_rate"

BaselineAfterUpdate ==
    pc = "Actuating" =>
        /\ steps = SubSeq(EpisodeOrder, 1, 6)
        /\ Get(selection).record.model_selected_switching_point
              = GetOptimalSwitchPoint(agent.q_table)
        /\ Get(selection).next_switch_point \in
              { SelectAction(GetOptimalSwitchPoint(agent.q_table), e, o)[1] :
                    e \in BOOLEAN, o \in SessionOffsets }

\* the send step passes on what select_action returned
SendsSelected ==
    (pc = "Actuating" /\ pc' = "WritingQValues") =>
        /\ sent' # None
        /\ Get(sent').value = Get(selection).next_switch_point

\* C21: in every successful episode the value sent to the actuator is
\* exactly the switching point select_action returned, and the baseline
\* given to select_action is the optimum get_optimal_switch_point returns
\* after the agent update of the same episode.
C21_SendsSelected == [](BaselineAfterUpdate) /\ [][SendsSelected]_vars

\* an explored point, one unit off the optimum of the updated table, has
\* been sent
C21_Witness ==
    /\ pc = "WritingQValues"
    /\ Get(current_switch_point) \in DOMAIN agent.q_table
    /\ Get(selection).exploration_flag
    /\ Get(sent).value = Get(selection).next_switch_point
    /\ Get(sent).value = GetOptimalSwitchPoint(agent.q_table) + 1

\* the update step of the bandit agent enters the reward stored in the
\* episode data into the value table
UpdateUsesStoredReward ==
    ( /\ pc = "UpdatingAgent"
      /\ agent.type = "QLearningAgent"
      /\ agent'.update_count = agent.update_count + 1 ) =>
        agent'.q_table = UpdateQValue(agent.q_table, Get(current_switch_point),
                                      Get(Get(episode_data).reward))

\* C22: for every successful episode the reward with which the bandit
\* agent's value entry is updated is the reward the scoring step computed
\* and stored in the episode data of that episode.
C22_SameReward == [][UpdateUsesStoredReward]_vars

\* the persistence calls of an episode in the order of the code
PersistenceOrder ==
    <<"save_original_episode", "save_parsed_episode", "save_statistics">>

\* C23: within one episode the persistence calls are ordered and gated:
\* save_parsed_episode is called only after save_original_episode returned
\* an id and is given that id, save_statistics only after
\* save_parsed_episode returned an id too; after a call that returns no id
\* or raises, no later call is made.
C23_PersistenceGated ==
    /\ Len(db_calls) <= 3
    /\ \A i \in 1..Len(db_calls) : db_calls[i].fn = PersistenceOrder[i]
    /\ \A i \in 2..Len(db_calls) :
          db_calls[i - 1].answer \in {"id:original", "id:parsed"}
    /\ Len(db_calls) >= 2 =>
          /\ db_calls[1].answer = "id:original"
          /\ db_calls[2].original_id = Some(db_calls[1].answer)
    /\ Len(db_calls) = 3 => db_calls[2].answer = "id:parsed"
    /\ db_error <=> (\E i \in 1..Len(db_calls) : db_calls[i].answer = "raises")

\* save_parsed_episode was given the id of the original episode and
\* returned none: save_statistics was not called
C23_Witness ==
    /\ pc = "Returned"
    /\ Len(db_calls) = 2
    /\ db_calls[2].original_id = Some("id:original")
    /\ db_calls[2].answer = "none"
    /\ ~db_error

\* the class counters
ClassKeys == {"safe_episodes", "overflow_episodes", "underflow_episodes"}

\* a step that changes the statistics either counts a scored episode
\* (total, successful and exactly one class counter, each by one) or a
\* failed one (failed_episodes by one, nothing else)
CountsOneEpisode ==
    (session_stats' # session_stats) =>
        \/ /\ session_stats'.total_episodes = session_stats.total_episodes + 1
           /\ session_stats'.successful_episodes
                 = session_stats.successful_episodes + 1
           /\ session_stats'.failed_episodes = session_stats.failed_episodes
           /\ \E k \in ClassKeys :
                 /\ session_stats'[k] = session_stats[k] + 1
                 /\ \A o \in ClassKeys \ {k} : session_stats'[o] = session_stats[o]
        \/ session_stats' = [session_stats EXCEPT !.failed_episodes = @ + 1]

\* C25: in every reachable state successful_episodes = safe_episodes +
\* overflow_episodes + underflow_episodes and total_episodes =
\* successful_episodes; a scored episode increments total, successful and
\* exactly one class counter, a failed episode only failed_episodes.
C25_CountersConsistent ==
    /\ [](/\ session_stats.successful_episodes
               = session_stats.safe_episodes + session_stats.overflow_episodes
                   + session_stats.underflow_episodes
          /\ session_stats.total_episodes = session_stats.successful_episodes)
    /\ [][CountsOneEpisode]_vars

\* two scored episodes of different classes and a failed one
C25_Witness ==
    /\ session_stats.total_episodes = 2
    /\ session_stats.safe_episodes = 1
    /\ session_stats.overflow_episodes = 1
    /\ session_stats.failed_episodes = 1

\* the class counter a scored fill incremented
CountedClass(stats) ==
    IF stats.overflow_episodes = 1 THEN "overweight"
    ELSE IF stats.underflow_episodes = 1 THEN "underweight"
    ELSE "safe"

\* C26: for every successful episode the termination class written to the
\* record (final weight against the reward calculator's band times the
\* quantization step) is the class of the statistics counter incremented
\* for the episode (from the data processor's overflow and underflow
\* amounts), for every reward calculator and quantization step.
C26_SameClass ==
    ( /\ call # None
      /\ Get(call).fn = "classify_with"
      /\ Get(call).result # None ) =>
        Get(Get(call).result).termination_type
            = CountedClass(Get(Get(call).result).stats)

\* the records made so far are left as they are
RecordsKept ==
    /\ Len(episodes') >= Len(episodes)
    /\ \A i \in 1..Len(episodes) : episodes'[i].q_value = episodes[i].q_value

\* a record is appended with the table the agent has at that moment
SnapshotIsCurrentTable ==
    Len(episodes') > Len(episodes) =>
        episodes'[Len(episodes')].q_value = agent.q_table

\* the agent's table changes in _update_agent_with_episode only
TableChangesInUpdateOnly ==
    agent'.q_table # agent.q_table => pc = "UpdatingAgent"

\* C27: the value-table snapshot stored in an episode's record equals the
\* agent's table immediately after that episode's update (the table is
\* written by the update only and the record is appended with the table as
\* it is then), and the updates of later episodes leave it unchanged.
C27_SnapshotFrozen ==
    [][RecordsKept /\ SnapshotIsCurrentTable /\ TableChangesInUpdateOnly]_vars

\* two records whose snapshots differ: the second update changed the table
\* after the first record was made
C27_Witness ==
    /\ Len(episodes) = 2
    /\ episodes[1].q_value # episodes[2].q_value
    /\ episodes[2].q_value = agent.q_table

\* C28: every device connection opened during a session (telemetry socket,
\* actuator connection) is closed by the time run_agent_testing returns,
\* also when only one of the two connections could be established.
C28_ConnectionsClosedOnReturn ==
    outcome.returned # None =>
        /\ udp_socket # "open"
        /\ ~modbus_open

\* C24: run_manual_testing, given a list of switching points and connected
\* devices, runs one episode per listed switching point in list order and
\* returns the data of exactly those episodes that succeeded (a session the
\* operator did not cancel).
C24_OneEpisodePerPoint ==
    ( /\ pc = "Done"
      /\ call # None
      /\ Get(call).fn = "run_manual_testing"
      /\ outcome.cause # "cancel" ) =>
        /\ Len(steps) = Len(Get(call).input)
        /\ outcome.returned = Some(episodes)

\* C29: for both TCPClient and UDPClient, after close() the client is
\* disconnected: a following receive_data reports "not connected" without
\* reading the closed socket, and calling close() again changes nothing.
C29_ClosedIsDisconnected ==
    ( /\ pc = "Client"
      /\ call # None
      /\ Get(call).fn = "client" ) =>
        LET history == Client.history
        IN \A i \in 2..Len(history) :
             history[i - 1].op = "close" =>
               /\ history[i].op = "receive_data" =>
                    /\ history[i].did = "not_connected"
                    /\ ~history[i].read
               /\ history[i].op = "close" => history[i].did = "nothing"

====
